---------------------------- MODULE Spec2Model ----------------------------
(***************************************************************************)
(* Roll-call vote reconciliation and summarisation of vote-fetcher:        *)
(* vote_fetcher/senate_votes.py, vote_fetcher/house_votes.py and           *)
(* vote_fetcher/utils.py.                                                  *)
(*                                                                         *)
(* A text is a sequence of characters, each character a one-element TLA+   *)
(* string; the characters outside ASCII are written by code point          *)
(* ("U+00E9" is e-acute) and the line feed is "LF".  A missing value of a  *)
(* pandas column (None / NaN) is NaN for a scalar column and NaNText for   *)
(* a text column.                                                          *)
(***************************************************************************)
EXTENDS Naturals, Sequences, FiniteSets

\* ---------------------------------------------------------------- bounds
\* Longest name drawn for the name-normalisation chains.
MaxLen == 3
\* Most lines on a fetched Senate vote page / rows of a House vote table.
MaxVotes == 2
\* Most members of a fetched roster.
MaxMembers == 2

\* -------------------------------------------------------------- missing
NaN == "NaN"
NaNText == <<"NaN">>

\* ----------------------------------------------------------- characters
UpperCase == <<"A","B","C","D","E","F","G","H","I","J","K","L","M",
               "N","O","P","Q","R","S","T","U","V","W","X","Y","Z">>
LowerCase == <<"a","b","c","d","e","f","g","h","i","j","k","l","m",
               "n","o","p","q","r","s","t","u","v","w","x","y","z">>

\* Python's \s and str.strip() whitespace, as far as the alphabet goes.
IsSpace(c) == c \in {" ", "LF"}

\* str.lower() on one character: cased letters fold, everything else
\* (digits, punctuation, the uncased ideograph U+5317) is kept.
LowerChar(c) ==
    IF \E i \in 1..26 : UpperCase[i] = c
    THEN LowerCase[CHOOSE i \in 1..26 : UpperCase[i] = c]
    ELSE IF c = "U+00C9" THEN "U+00E9" ELSE c

\* unidecode.unidecode on one character: ASCII is kept, a Latin letter with
\* a diacritic becomes its base letter, and an ideograph becomes its
\* capitalised romanisation followed by a space (unidecode of U+5317 is
\* "Bei ").
UnidecodeChar(c) ==
    CASE c = "U+00E9" -> <<"e">>
      [] c = "U+00C9" -> <<"E">>
      [] c = "U+5317" -> <<"B", "e", "i", " ">>
      [] OTHER -> <<c>>

Min(S) == CHOOSE x \in S : \A y \in S : x <= y

\* ------------------------------------------------------ string methods
\* .str.lower()
Lower(s) == [i \in 1..Len(s) |-> LowerChar(s[i])]

\* .apply(unidecode.unidecode)
RECURSIVE Unidecode(_)
Unidecode(s) ==
    IF s = << >> THEN << >> ELSE UnidecodeChar(Head(s)) \o Unidecode(Tail(s))

\* .str.strip()
RECURSIVE LStrip(_)
LStrip(s) ==
    IF s # << >> /\ IsSpace(Head(s)) THEN LStrip(Tail(s)) ELSE s

RECURSIVE RStrip(_)
RStrip(s) ==
    IF s # << >> /\ IsSpace(s[Len(s)]) THEN RStrip(SubSeq(s, 1, Len(s) - 1))
    ELSE s

Strip(s) == RStrip(LStrip(s))

\* .str.replace(r"\s+", " ", regex=True): every maximal run of whitespace
\* becomes one space.
RECURSIVE CollapseWhitespace(_)
CollapseWhitespace(s) ==
    IF s = << >> THEN << >>
    ELSE IF IsSpace(Head(s))
         THEN <<" ">> \o CollapseWhitespace(LStrip(s))
         ELSE <<Head(s)>> \o CollapseWhitespace(Tail(s))

\* Where the lazy pattern \(.*?\) that starts at the "(" at position i
\* ends: the first ")" after i, provided no line feed lies between ("."
\* does not match a line feed); 0 when the pattern does not match at i.
CloseOf(s, i) ==
    LET js == {j \in (i + 1)..Len(s) :
                  /\ s[j] = ")"
                  /\ \A k \in (i + 1)..(j - 1) : s[k] # "LF"}
    IN IF js = {} THEN 0 ELSE Min(js)

\* .str.replace(r"\(.*?\)", "", regex=True): scanning from the left, every
\* non-overlapping match is deleted.
RECURSIVE RemoveParensFrom(_, _)
RemoveParensFrom(s, i) ==
    IF i > Len(s) THEN << >>
    ELSE IF s[i] = "(" /\ CloseOf(s, i) # 0
         THEN RemoveParensFrom(s, CloseOf(s, i) + 1)
         ELSE <<s[i]>> \o RemoveParensFrom(s, i + 1)

RemoveParens(s) == RemoveParensFrom(s, 1)

\* ------------------------------------------------ the three name chains
\* vote_df["cleaned_name"]
CleanedName(name) ==
    Unidecode(Lower(Strip(CollapseWhitespace(RemoveParens(name)))))

\* member_df["normalized_full_name"]
NormalizedFullName(full_name) ==
    Unidecode(Lower(Strip(CollapseWhitespace(full_name))))

\* member_df["normalized_last_name"]
NormalizedLastName(last_name) == Unidecode(Lower(last_name))


\* ------------------------------------------------------------ variables
VARIABLES
    \* the name-normalisation chains applied to one name and a variant of it
    raw_name,          \* a name as it stands in vote_df["name"]
    key_vote,          \* its cleaned_name
    key_vote_twice,    \* the cleaned_name of its cleaned_name
    raw_variant,       \* the same name as the roster writes it
    key_full,          \* the variant's normalized_full_name
    key_last,          \* the variant's normalized_last_name
    step,              \* how far the chains have been applied
    \* one run of main()
    pc,                \* the statement main() is at
    bucket,            \* args.bucket is given
    vote_data,         \* the lines of the Senate vote page, as fetched
    member_df,         \* the roster as fetched, then with its key columns
    vote_df,           \* the vote rows as fetched, then with cleaned_name
    enriched_df,       \* enrich_with_member_data's result
    formatted_df,      \* format_final_output's result
    overall,           \* the partisan summary table
    printed,           \* what the run has printed, in order
    files,             \* the local files written, in order
    uploads,           \* the uploads attempted, in order, with their outcome
    raised             \* the exception that ended the run, if any

\* The House run (house_votes.py) names its frames votes_df, members_df,
\* merged_df and overall_summary: they are held in vote_df, member_df,
\* enriched_df and overall.
runVars == <<pc, bucket, vote_data, member_df, vote_df, enriched_df,
             formatted_df, overall, printed, files, uploads, raised>>

normVars == <<raw_name, key_vote, key_vote_twice, raw_variant, key_full,
              key_last, step>>

vars == <<normVars, runVars>>

\* ------------------------------------------- inputs of the name chains
Alphabet == {"e", "E", "U+00E9", " ", "LF", "(", ")", "U+5317"}

Texts(n) == UNION {[1..k -> Alphabet] : k \in 0..n}

Insert(s, i, t) == SubSeq(s, 1, i) \o t \o SubSeq(s, i + 1, Len(s))

Replace(s, i, c) == [s EXCEPT ![i] = c]

\* The other case of a letter.
CaseVariants(c) ==
    CASE c = "e" -> {"E"}
      [] c = "E" -> {"e"}
      [] c = "U+00E9" -> {"U+00C9"}
      [] OTHER -> {}

\* The letter with or without its diacritic.
DiacriticVariants(c) ==
    CASE c = "e" -> {"U+00E9"}
      [] c = "U+00E9" -> {"e"}
      [] c = "E" -> {"U+00C9"}
      [] OTHER -> {}

\* The names that differ from s by one letter's case or diacritic, by the
\* whitespace around it or inside one of its whitespace runs, or by one
\* parenthetical.
Variants(s) ==
    UNION {
        {s},
        UNION {{Replace(s, i, c) :
                    c \in CaseVariants(s[i]) \cup DiacriticVariants(s[i])} :
               i \in 1..Len(s)},
        {<<" ">> \o s, s \o <<" ">>},
        {Insert(s, i, <<" ">>) : i \in {j \in 1..Len(s) : IsSpace(s[j])}},
        {Insert(s, i, <<"(", "e", ")">>) : i \in 0..Len(s)} }

\* The run's variables before main() starts.
RunIdle ==
    /\ pc = "start"
    /\ vote_data = << >>
    /\ member_df = << >>
    /\ vote_df = << >>
    /\ enriched_df = << >>
    /\ formatted_df = << >>
    /\ overall = {}
    /\ printed = << >>
    /\ files = << >>
    /\ uploads = << >>
    /\ raised = NaN

\* The name chains' variables when no chain is run.
NormIdle ==
    /\ raw_name = NaNText
    /\ key_vote = NaNText
    /\ key_vote_twice = NaNText
    /\ raw_variant = NaNText
    /\ key_full = NaNText
    /\ key_last = NaNText
    /\ step = "idle"

\* ------------------------------------------------- the chains, stepwise
InitNorm ==
    /\ RunIdle
    /\ bucket = FALSE
    /\ raw_name \in Texts(MaxLen)
    /\ key_vote = NaNText
    /\ key_vote_twice = NaNText
    /\ raw_variant = NaNText
    /\ key_full = NaNText
    /\ key_last = NaNText
    /\ step = "input"

CleanVoteName ==
    /\ step = "input"
    /\ key_vote' = CleanedName(raw_name)
    /\ step' = "cleaned"
    /\ UNCHANGED <<raw_name, key_vote_twice, raw_variant, key_full, key_last>>
    /\ UNCHANGED runVars

CleanAgain ==
    /\ step = "cleaned"
    /\ key_vote_twice' = CleanedName(key_vote)
    /\ step' = "recleaned"
    /\ UNCHANGED <<raw_name, key_vote, raw_variant, key_full, key_last>>
    /\ UNCHANGED runVars

NormalizeRosterName ==
    /\ step = "recleaned"
    /\ \E v \in Variants(raw_name) :
          /\ raw_variant' = v
          /\ key_full' = NormalizedFullName(v)
          /\ key_last' = NormalizedLastName(v)
    /\ step' = "keyed"
    /\ UNCHANGED <<raw_name, key_vote, key_vote_twice>>
    /\ UNCHANGED runVars

NextNorm == CleanVoteName \/ CleanAgain \/ NormalizeRosterName

SpecNorm == InitNorm /\ [][NextNorm]_vars

\* ===================================================== senate_votes.py
\* The run prints more than `printed` holds: the progress lines ("Fetching
\* Senate member list...", "Formatting final output...") are left out.

\* ------------------------------------------------------- Senate: inputs
Yea == <<"Y", "e", "a">>
Nay == <<"N", "a", "y">>
NotVoting == <<"N", "o", "t", " ", "V", "o", "t", "i", "n", "g">>
CheckMark == <<" ", "U+2713">>

JaneDoe == <<"J", "a", "n", "e", " ", "D", "o", "e">>
Doe == <<"D", "o", "e">>
Jane == <<"J", "a", "n", "e">>
JohnSmith == <<"J", "o", "h", "n", " ", "S", "m", "i", "t", "h">>
Smith == <<"S", "m", "i", "t", "h">>
John == <<"J", "o", "h", "n">>
AnnSmith == <<"A", "n", "n", " ", "S", "m", "i", "t", "h">>
Ann == <<"A", "n", "n">>

\* <member> elements the Senate's XML feed may hold.  Two senators share a
\* last name, and two share a full name.
SenateMembers == {
    [id |-> "S1", full_name |-> JaneDoe, last_name |-> Doe,
     first_name |-> Jane, party |-> "D", state |-> "CA"],
    [id |-> "S2", full_name |-> JohnSmith, last_name |-> Smith,
     first_name |-> John, party |-> "R", state |-> "TX"],
    [id |-> "S3", full_name |-> AnnSmith, last_name |-> Smith,
     first_name |-> Ann, party |-> "D", state |-> "NY"],
    [id |-> "S4", full_name |-> JaneDoe, last_name |-> Doe,
     first_name |-> Jane, party |-> "I", state |-> "VT"] }

\* A roster: no two members share an id.
SenateRosters ==
    {r \in UNION {[1..k -> SenateMembers] : k \in 0..MaxMembers} :
        \A i, j \in DOMAIN r : i # j => r[i].id # r[j].id}

\* Lines of the vote page's text.
LineDoeJane == <<"D", "o", "e", ",", " ", "J", "a", "n", "e", " ", "(", "D",
                 "-", "C", "A", ")", ",", " ", "Y", "e", "a">>
LineJaneDoe == <<"J", "a", "n", "e", " ", "D", "o", "e", " ", "(", "D", "-",
                 "C", "A", ")", ",", " ", "Y", "e", "a">>
LineSmith == <<"S", "m", "i", "t", "h", " ", "(", "R", "-", "T", "X", ")",
               ",", " ", "N", "a", "y">>
LineDoe == <<"D", "o", "e", " ", "(", "D", "-", "C", "A", ")", ",", " ",
             "N", "a", "y">>
LineZed == <<"Z", "e", "d", " ", "(", "I", "-", "M", "E", ")", ",", " ",
             "N", "o", "t", " ", "V", "o", "t", "i", "n", "g">>
LineRoe == <<"R", "o", "e", " ", "(", "R", "-", "O", "H", ")", ",", " ",
             "Y", "e", "a">>
LineBlank == <<" ", " ">>
LineNoVote == <<"J", "a", "n", "e", " ", "D", "o", "e">>

SenateLines == {LineDoeJane, LineJaneDoe, LineSmith, LineDoe, LineZed,
                LineRoe, LineBlank, LineNoVote}

\* A vote page: its title says "Unavailable", or it holds lines.
SenatePages ==
    {[unavailable |-> TRUE, lines |-> << >>]}
    \cup {[unavailable |-> FALSE, lines |-> l] :
            l \in UNION {[1..k -> SenateLines] : k \in 0..MaxVotes}}

\* --------------------------------------------------- fetch_senate_vote
\* line.split(", ")
RECURSIVE SplitCommaSpace(_)
SplitCommaSpace(s) ==
    LET seps == {i \in 1..(Len(s) - 1) : s[i] = "," /\ s[i + 1] = " "}
    IN IF seps = {} THEN <<s>>
       ELSE <<SubSeq(s, 1, Min(seps) - 1)>>
            \o SplitCommaSpace(SubSeq(s, Min(seps) + 2, Len(s)))

\* The row of one line.
VoteRow(line) ==
    LET parts == SplitCommaSpace(line)
    IN [name |-> Strip(parts[1]),
        vote |-> IF Len(parts) > 1 THEN Strip(parts[2]) ELSE NaNText]

IsBlank(line) == Strip(line) = << >>

RECURSIVE ParseLines(_)
ParseLines(lines) ==
    IF lines = << >> THEN << >>
    ELSE IF IsBlank(Head(lines)) THEN ParseLines(Tail(lines))
    ELSE <<VoteRow(Head(lines))>> \o ParseLines(Tail(lines))

\* ---------------------------------------------- enrich_with_member_data
WithCleanedName(v) ==
    [name |-> v.name, vote |-> v.vote, cleaned_name |-> CleanedName(v.name)]

WithNormalizedNames(m) ==
    [id |-> m.id, full_name |-> m.full_name, last_name |-> m.last_name,
     first_name |-> m.first_name, party |-> m.party, state |-> m.state,
     normalized_full_name |-> NormalizedFullName(m.full_name),
     normalized_last_name |-> NormalizedLastName(m.last_name)]

\* The member columns of a row no member was merged into.
NoMember ==
    [id |-> NaN, full_name |-> NaNText, last_name |-> NaNText,
     first_name |-> NaNText, party |-> NaN, state |-> NaN,
     normalized_full_name |-> NaNText, normalized_last_name |-> NaNText]

\* A vote row with a member row's columns beside it.
JoinedRow(v, m) ==
    [name |-> v.name, vote |-> v.vote, cleaned_name |-> v.cleaned_name,
     id |-> m.id, full_name |-> m.full_name, last_name |-> m.last_name,
     first_name |-> m.first_name, party |-> m.party, state |-> m.state,
     normalized_full_name |-> m.normalized_full_name,
     normalized_last_name |-> m.normalized_last_name]

\* The members whose column right_on equals key, in roster order.
RECURSIVE Hits(_, _, _)
Hits(right, right_on, key) ==
    IF right = << >> THEN << >>
    ELSE (IF Head(right)[right_on] = key THEN <<Head(right)>> ELSE << >>)
         \o Hits(Tail(right), right_on, key)

\* pd.merge(left, right, left_on=, right_on=, how="left"): the left rows in
\* their order, each once per right row with an equal key, or once with
\* missing member columns when there is none.
RECURSIVE MergeLeft(_, _, _, _)
MergeLeft(left, right, left_on, right_on) ==
    IF left = << >> THEN << >>
    ELSE LET v == Head(left)
             hits == Hits(right, right_on, v[left_on])
         IN (IF hits = << >> THEN <<JoinedRow(v, NoMember)>>
             ELSE [i \in 1..Len(hits) |-> JoinedRow(v, hits[i])])
            \o MergeLeft(Tail(left), right, left_on, right_on)

\* df[df["id"].isna()] and df[~df["id"].isna()]
RECURSIVE IdMissing(_)
IdMissing(df) ==
    IF df = << >> THEN << >>
    ELSE (IF Head(df).id = NaN THEN <<Head(df)>> ELSE << >>)
         \o IdMissing(Tail(df))

RECURSIVE IdPresent(_)
IdPresent(df) ==
    IF df = << >> THEN << >>
    ELSE (IF Head(df).id # NaN THEN <<Head(df)>> ELSE << >>)
         \o IdPresent(Tail(df))

\* unmatched.drop(columns=member_df.columns)
DropMemberColumns(df) ==
    [i \in 1..Len(df) |->
        [name |-> df[i].name, vote |-> df[i].vote,
         cleaned_name |-> df[i].cleaned_name]]

\* The merge on the full name.
FullNameMerge(votes, members) ==
    MergeLeft(votes, members, "cleaned_name", "normalized_full_name")

\* The merge of the rows left unmatched on the last name.
LastNameMerge(unmatched, members) ==
    MergeLeft(DropMemberColumns(unmatched), members,
              "cleaned_name", "normalized_last_name")

\* The frame enrich_with_member_data returns.
Enriched(votes, members) ==
    LET first == FullNameMerge(votes, members)
        unmatched == IdMissing(first)
    IN IF unmatched = << >> THEN first
       ELSE IdPresent(first) \o LastNameMerge(unmatched, members)

\* What enrich_with_member_data prints.
EnrichPrints(votes, members) ==
    LET unmatched == IdMissing(FullNameMerge(votes, members))
        final_unmatched == IdMissing(Enriched(votes, members))
    IN (IF unmatched = << >> THEN << >>
        ELSE <<[kind |-> "fallback", data |-> Len(unmatched)]>>)
       \o (IF final_unmatched = << >> THEN << >>
           ELSE <<[kind |-> "unmatched",
                   data |-> [i \in 1..Len(final_unmatched) |->
                               <<final_unmatched[i].name,
                                 final_unmatched[i].cleaned_name>>]]>>)

\* ------------------------------------------------ generate_vote_summary
\* The chamber's size the Senate summary expects.
SenateSize == 100

\* df.drop_duplicates(subset=col): of the rows with one value in col the
\* first is kept; missing values count as one value.
RECURSIVE DropDuplicatesFrom(_, _, _)
DropDuplicatesFrom(df, col, seen) ==
    IF df = << >> THEN << >>
    ELSE IF Head(df)[col] \in seen
         THEN DropDuplicatesFrom(Tail(df), col, seen)
         ELSE <<Head(df)>>
              \o DropDuplicatesFrom(Tail(df), col, seen \cup {Head(df)[col]})

DropDuplicates(df, col) == DropDuplicatesFrom(df, col, {})

\* How many rows of df hold x in col.
CountOf(df, col, x) == Cardinality({i \in 1..Len(df) : df[i][col] = x})

\* df[col].value_counts(): the count of every value that is not missing.
ValueCounts(df, col, missing) ==
    [x \in {df[i][col] : i \in 1..Len(df)} \ {missing} |-> CountOf(df, col, x)]

\* value_counts().get(x, 0)
Get(counts, x) == IF x \in DOMAIN counts THEN counts[x] ELSE 0

\* What generate_vote_summary prints for merged_df: the warning and the
\* ids' counts when the total is not the chamber's size, and the summary
\* otherwise.
SenateSummaryPrints(merged_df) ==
    LET df == DropDuplicates(merged_df, "id")
        total_members == Len(df)
        party_counts == ValueCounts(df, "party", NaN)
        vote_counts == ValueCounts(df, "vote", NaNText)
    IN IF total_members # SenateSize
       THEN <<[kind |-> "count_warning",
               data |-> [total |-> total_members,
                         ids |-> ValueCounts(df, "id", NaN)]]>>
       ELSE <<[kind |-> "summary",
               data |-> [total |-> total_members,
                         d_with_i |-> Get(party_counts, "D")
                                      + Get(party_counts, "I"),
                         r |-> Get(party_counts, "R"),
                         yea |-> Get(vote_counts, Yea),
                         nay |-> Get(vote_counts, Nay),
                         not_voting |-> Get(vote_counts, NotVoting)]]>>

\* -------------------------------------------------- format_final_output
FormatFinalOutput(df) ==
    [i \in 1..Len(df) |->
        [id |-> df[i].id, last_name |-> df[i].last_name,
         first_name |-> df[i].first_name, party |-> df[i].party,
         state |-> df[i].state, vote |-> df[i].vote,
         cleaned_name |-> df[i].cleaned_name]]

\* -------------------------------------------- generate_partisan_summary
\* .rename(columns={"D": "Democratic", "R": "Republican", "I": "Independent"})
PartyColumn(p) ==
    CASE p = "D" -> "Democratic"
      [] p = "R" -> "Republican"
      [] p = "I" -> "Independent"
      [] OTHER -> p

\* The rows groupby(["party", "vote"]) counts: those with both keys.
RECURSIVE Grouped(_)
Grouped(df) ==
    IF df = << >> THEN << >>
    ELSE (IF Head(df).party # NaN /\ Head(df).vote # NaNText
          THEN <<Head(df)>> ELSE << >>)
         \o Grouped(Tail(df))

\* The pivot: one row per vote, one column per party, a missing cell 0.
\* The rows' order (sort_values) is not kept: the table is a set of rows.
PartisanTable(enriched) ==
    LET df == Grouped(DropDuplicates(enriched, "id"))
        parties == {df[i].party : i \in 1..Len(df)}
    IN {[vote |-> v,
         counts |-> [c \in {PartyColumn(q) : q \in parties} |->
                        Cardinality({i \in 1..Len(df) :
                            df[i].vote = v /\ PartyColumn(df[i].party) = c})]]
        : v \in {df[i].vote : i \in 1..Len(df)}}

RECURSIVE SumOver(_, _)
SumOver(f, S) ==
    IF S = {} THEN 0
    ELSE LET x == CHOOSE y \in S : TRUE IN f[x] + SumOver(f, S \ {x})

\* overall[overall["vote"] == v].iloc[:, 1:].sum(axis=1): the sums of the
\* rows labelled v; .values[0] of it raises IndexError when there is none.
RowSums(table, v) ==
    {SumOver(r.counts, DOMAIN r.counts) : r \in {q \in table : q.vote = v}}

\* Which of Yea and Nay gets the check mark.
SenateWinner(yea_votes, nay_votes) ==
    IF yea_votes > nay_votes THEN Yea ELSE Nay

\* overall.loc[overall["vote"] == v, "vote"] += " ✓"
Marked(table, v) ==
    {IF r.vote = v THEN [r EXCEPT !.vote = v \o CheckMark] ELSE r : r \in table}

\* ------------------------------------------------------------ utils.py
\* What upload_file may do: succeed, or raise.
UploadOutcomes == {"uploaded", "failed"}

\* What a call of save_to_s3 may come to: boto3.Session(profile_name=...)
\* or boto3.client("s3") raises (a profile the AWS configuration does not
\* hold), or the client is made and upload_file succeeds or raises.
SaveToS3Outcomes == UploadOutcomes \cup {"no_client"}

\* save_to_s3: the session and the client are made outside the try, so
\* their exception leaves save_to_s3; the upload is tried inside it and its
\* outcome printed, an exception of upload_file being caught.
SaveToS3(local_path, outcome) ==
    IF outcome = "no_client"
    THEN /\ raised' = "ProfileNotFound"
         /\ UNCHANGED <<uploads, printed>>
    ELSE /\ uploads' = Append(uploads, [path |-> local_path,
                                        outcome |-> outcome])
         /\ printed' = Append(printed, [kind |-> outcome, data |-> local_path])
         /\ UNCHANGED raised

\* --------------------------------------------------- senate_votes.main

InitSenate ==
    /\ NormIdle
    /\ RunIdle
    /\ bucket \in BOOLEAN

FetchSenateMemberList ==
    /\ pc = "start"
    /\ member_df' \in SenateRosters
    /\ pc' = "members"
    /\ UNCHANGED <<bucket, vote_data, vote_df, enriched_df, formatted_df,
                   overall, printed, files, uploads, raised>>
    /\ UNCHANGED normVars

\* A fetch that takes an unavailable vote for a vote nobody has cast.
FetchUnavailableAsEmpty ==
    /\ pc = "members"
    /\ \E page \in SenatePages :
          /\ vote_data' = page.lines
          /\ vote_df' = ParseLines(page.lines)
          /\ pc' = "votes"
          /\ printed' = IF page.unavailable
                        THEN Append(printed, [kind |-> "unavailable",
                                              data |-> NaN])
                        ELSE printed
    /\ UNCHANGED <<bucket, member_df, enriched_df, formatted_df, overall,
                   files, uploads, raised>>
    /\ UNCHANGED normVars

\* fetch_senate_vote and main's test of its result.
FetchSenateVote ==
    /\ pc = "members"
    /\ \E page \in SenatePages :
          IF page.unavailable
          THEN /\ printed' = printed \o <<[kind |-> "unavailable", data |-> NaN],
                                          [kind |-> "exiting", data |-> NaN]>>
               /\ pc' = "exited"
               /\ UNCHANGED <<vote_data, vote_df>>
          ELSE /\ vote_data' = page.lines
               /\ vote_df' = ParseLines(page.lines)
               /\ pc' = "votes"
               /\ UNCHANGED printed
    /\ UNCHANGED <<bucket, member_df, enriched_df, formatted_df, overall,
                   files, uploads, raised>>
    /\ UNCHANGED normVars

\* enrich_with_member_data: it adds the key columns to the frames it is
\* given and returns the merged frame.  A frame built from an empty list
\* (pd.DataFrame([])) has no columns: vote_df["name"] raises KeyError then,
\* and so does member_df["full_name"] once vote_df has its key column.
EnrichWithMemberData ==
    /\ pc = "votes"
    /\ LET votes == [i \in 1..Len(vote_df) |-> WithCleanedName(vote_df[i])]
           members == [i \in 1..Len(member_df) |->
                          WithNormalizedNames(member_df[i])]
       IN IF vote_df = << >>
          THEN /\ raised' = "KeyError"
               /\ pc' = "raised"
               /\ UNCHANGED <<vote_df, member_df, enriched_df, printed>>
          ELSE IF member_df = << >>
          THEN /\ vote_df' = votes
               /\ raised' = "KeyError"
               /\ pc' = "raised"
               /\ UNCHANGED <<member_df, enriched_df, printed>>
          ELSE /\ vote_df' = votes
               /\ member_df' = members
               /\ enriched_df' = Enriched(votes, members)
               /\ printed' = printed \o EnrichPrints(votes, members)
               /\ pc' = "enriched"
               /\ UNCHANGED raised
    /\ UNCHANGED <<bucket, vote_data, formatted_df, overall, files, uploads>>
    /\ UNCHANGED normVars

\* generate_vote_summary, which main calls before and after formatting.
GenerateVoteSummary(from, to) ==
    /\ pc = from
    /\ printed' = printed \o SenateSummaryPrints(enriched_df)
    /\ pc' = to
    /\ UNCHANGED <<bucket, vote_data, member_df, vote_df, enriched_df,
                   formatted_df, overall, files, uploads, raised>>
    /\ UNCHANGED normVars

FormatOutput ==
    /\ pc = "enriched_summary"
    /\ formatted_df' = FormatFinalOutput(enriched_df)
    /\ pc' = "formatted"
    /\ UNCHANGED <<bucket, vote_data, member_df, vote_df, enriched_df,
                   overall, printed, files, uploads, raised>>
    /\ UNCHANGED normVars

SaveSenateCsv ==
    /\ pc = "formatted_summary"
    /\ files' = Append(files, [path |-> "senate_vote.csv", rows |-> formatted_df])
    /\ printed' = Append(printed, [kind |-> "saved", data |-> "senate_vote.csv"])
    /\ pc' = "saved"
    /\ UNCHANGED <<bucket, vote_data, member_df, vote_df, enriched_df,
                   formatted_df, overall, uploads, raised>>
    /\ UNCHANGED normVars

\* generate_partisan_summary: the IndexError of .values[0] ends the run.
GeneratePartisanSummary ==
    /\ pc = "saved"
    /\ LET table == PartisanTable(enriched_df)
           yea == RowSums(table, Yea)
           nay == RowSums(table, Nay)
       IN IF yea = {} \/ nay = {}
          THEN /\ raised' = "IndexError"
               /\ pc' = "raised"
               /\ UNCHANGED <<overall, files, printed>>
          ELSE LET yea_votes == CHOOSE n \in yea : TRUE
                   nay_votes == CHOOSE n \in nay : TRUE
                   marked == Marked(table, SenateWinner(yea_votes, nay_votes))
               IN /\ overall' = marked
                  /\ files' = Append(files, [path |-> "senate_partisan_summary.csv",
                                             rows |-> marked])
                  /\ printed' = printed
                        \o <<[kind |-> "saved",
                              data |-> "senate_partisan_summary.csv"],
                             [kind |-> "partisan_summary", data |-> marked]>>
                  /\ pc' = "partisan"
                  /\ UNCHANGED raised
    /\ UNCHANGED <<bucket, vote_data, member_df, vote_df, enriched_df,
                   formatted_df, uploads>>
    /\ UNCHANGED normVars

\* The end of main: save_to_s3 when a bucket is given; it reports a failed
\* upload and returns.  main passes it the output directory, not the file.
SenateUpload ==
    /\ pc = "partisan"
    /\ IF bucket
       THEN \E outcome \in SaveToS3Outcomes :
               /\ SaveToS3("../data/senate", outcome)
               /\ pc' = IF outcome = "no_client" THEN "raised" ELSE "done"
       ELSE /\ pc' = "done"
            /\ UNCHANGED <<printed, uploads, raised>>
    /\ UNCHANGED <<bucket, vote_data, member_df, vote_df, enriched_df,
                   formatted_df, overall, files>>
    /\ UNCHANGED normVars

NextSenate ==
    \/ FetchSenateMemberList
    \/ FetchSenateVote
    \/ EnrichWithMemberData
    \/ GenerateVoteSummary("enriched", "enriched_summary")
    \/ FormatOutput
    \/ GenerateVoteSummary("formatted", "formatted_summary")
    \/ SaveSenateCsv
    \/ GeneratePartisanSummary
    \/ SenateUpload

SpecSenate == InitSenate /\ [][NextSenate]_vars

\* ------------------------------------------------- the Senate's claims
\* main() has enriched the votes.
AfterEnrich ==
    \/ pc \in {"enriched", "enriched_summary", "formatted",
               "formatted_summary", "saved", "partisan", "done"}
    \/ raised = "IndexError"

\* main() has printed its first vote summary.
AfterSummary == AfterEnrich /\ pc # "enriched"

\* generate_partisan_summary has returned or raised.
AfterPartisan == pc = "partisan" \/ raised = "IndexError"

Printed(kind) == {i \in 1..Len(printed) : printed[i].kind = kind}

\* The members of the roster with this normalized full / last name.
FullNameHolders(key) ==
    {i \in 1..Len(member_df) : member_df[i].normalized_full_name = key}

LastNameHolders(key) ==
    {i \in 1..Len(member_df) : member_df[i].normalized_last_name = key}

\* C1: reconciliation gives one record per vote record, in the Senate run
\* the enriched frame has as many rows as the vote frame, and every vote
\* row is the vote part of exactly one enriched row.
C1_OneRecordPerVote ==
    AfterEnrich =>
        /\ Len(enriched_df) = Len(vote_df)
        /\ \A v \in {vote_df[i] : i \in 1..Len(vote_df)} :
              Cardinality({i \in 1..Len(vote_df) : vote_df[i] = v})
              = Cardinality({i \in 1..Len(enriched_df) :
                    /\ enriched_df[i].name = v.name
                    /\ enriched_df[i].vote = v.vote})

\* C3: a vote row without a full-name match whose cleaned name is the
\* normalized last name of two or more members stays unmatched.
C3_AmbiguousLastNameUnmatched ==
    AfterEnrich =>
        \A i \in 1..Len(enriched_df) :
            (/\ FullNameHolders(enriched_df[i].cleaned_name) = {}
             /\ Cardinality(LastNameHolders(enriched_df[i].cleaned_name)) >= 2)
            => enriched_df[i].id = NaN

\* C4: the page line "Doe, Jane (D-CA), Yea" with the member Jane Doe (D) on
\* the roster gives one record, matched to her on the full name with the
\* choice Yea, and a summary of total 1, one D and one Yea.
C4_LastFirstMatchedAndSummarized ==
    (/\ AfterSummary
     /\ vote_data = <<LineDoeJane>>
     /\ Len(member_df) = 1 /\ member_df[1].id = "S1")
    => /\ Len(enriched_df) = 1
       /\ enriched_df[1].id = "S1"
       /\ enriched_df[1].cleaned_name = enriched_df[1].normalized_full_name
       /\ enriched_df[1].vote = Yea
       /\ \E i \in Printed("summary") :
             /\ printed[i].data.total = 1
             /\ printed[i].data.d_with_i = 1
             /\ printed[i].data.yea = 1

\* The key the records are to be grouped by: the member's id, or the raw
\* name of an unmatched record.
DedupKey(r) == IF r.id # NaN THEN <<"id", r.id>> ELSE <<"raw_name", r.name>>

\* C5: the records left after deduplication are one per key, so the total
\* the summary reports is the number of keys.
C5_OneRecordPerKey ==
    AfterSummary =>
        \A i \in Printed("summary") \cup Printed("count_warning") :
            printed[i].data.total
            = Cardinality({DedupKey(enriched_df[k]) : k \in 1..Len(enriched_df)})

\* C6: a count-mismatch warning comes with the full summary.
C6_WarningKeepsSummary ==
    AfterSummary =>
        (Printed("count_warning") # {} => Printed("summary") # {})

\* The rows of the partisan table whose label carries the check mark.
MarkedRows == {r \in overall : \E v \in {Yea, Nay} : r.vote = v \o CheckMark}

\* The Yea and Nay totals of the deduplicated records a party is known for.
ChoiceTotal(v) ==
    Len(SelectSeq(Grouped(DropDuplicates(enriched_df, "id")),
                  LAMBDA r : r.vote = v))

\* C7 (Senate): once the partisan summary is through, exactly one of Yea
\* and Nay carries the check mark: Yea when it has strictly more votes, Nay
\* otherwise.
C7_SenateMarker ==
    AfterPartisan =>
        /\ Cardinality(MarkedRows) = 1
        /\ \A r \in MarkedRows :
              r.vote = (IF ChoiceTotal(Yea) > ChoiceTotal(Nay)
                        THEN Yea \o CheckMark ELSE Nay \o CheckMark)

\* C7 where the partisan summary returned.
C7_SenateMarkerWhenReturned ==
    pc = "partisan" =>
        /\ Cardinality(MarkedRows) = 1
        /\ \A r \in MarkedRows :
              r.vote = (IF ChoiceTotal(Yea) > ChoiceTotal(Nay)
                        THEN Yea \o CheckMark ELSE Nay \o CheckMark)

\* C8: the vote summary and the partisan summary raise nothing.
C8_SummaryNeverRaises == raised # "IndexError"

\* The rows of the vote file main() has written.
SavedVoteRows ==
    {f.rows : f \in {files[i] : i \in {k \in 1..Len(files) :
                                        files[k].path = "senate_vote.csv"}}}

\* The output row r is the row of the vote record v.
RowOf(r, v) == r.cleaned_name = v.cleaned_name /\ r.vote = v.vote

\* C11: the rows of the written vote file are in the order of the fetched
\* vote records: of two different vote records, the rows of the one fetched
\* first all come before the rows of the other.
C11_OutputKeepsVoteOrder ==
    \A rows \in SavedVoteRows :
        \A i, j \in 1..Len(vote_df) :
            (i < j /\ ~RowOf(vote_df[i], vote_df[j]))
            => \A p, q \in 1..Len(rows) :
                  (RowOf(rows[p], vote_df[i]) /\ RowOf(rows[q], vote_df[j]))
                  => p < q

\* C11, the part of format_final_output: its rows are the columns it picks
\* of the enriched rows, in their order, and the enriched frame is as it was.
C11_FormatKeepsOrder ==
    pc \in {"formatted", "formatted_summary", "saved", "partisan", "done"}
    => /\ Len(formatted_df) = Len(enriched_df)
       /\ \A i \in 1..Len(enriched_df) :
             /\ RowOf(formatted_df[i], enriched_df[i])
             /\ formatted_df[i].id = enriched_df[i].id

C11_FormatKeepsInput == [][FormatOutput => enriched_df' = enriched_df]_vars

\* C12: once the fetch has reported the vote unavailable, main has printed
\* its exit message and returned: nothing is enriched, summarised, written
\* or uploaded, and nothing is raised.
C12_UnavailableEndsRun ==
    Printed("unavailable") # {} =>
        /\ pc = "exited"
        /\ Printed("exiting") # {}
        /\ \A i \in 1..Len(printed) : printed[i].kind \in {"unavailable", "exiting"}
        /\ vote_df = << >> /\ enriched_df = << >> /\ formatted_df = << >>
        /\ overall = {}
        /\ files = << >>
        /\ uploads = << >>
        /\ raised = NaN

\* The vote is unavailable in a run that has a roster and a bucket to
\* upload to.
C12_Witness ==
    /\ pc = "exited"
    /\ Printed("unavailable") # {}
    /\ member_df # << >>
    /\ bucket

\* C12, the return of main: no step follows the exit.
C12_NothingAfterExit == [][pc = "exited" => pc' = "exited"]_vars

\* The raw names the run has warned about as unmatched.
WarnedNames ==
    UNION {{printed[i].data[k][1] : k \in 1..Len(printed[i].data)} :
           i \in Printed("unmatched")}

\* C13 (Senate): the rows without an id after both merges are kept with
\* missing member columns, one warning lists exactly their raw names, and
\* there is no warning when no row is without an id.
C13_SenateUnmatchedWarned ==
    AfterEnrich =>
        LET unmatched == {i \in 1..Len(enriched_df) : enriched_df[i].id = NaN}
        IN /\ \A i \in unmatched :
                 /\ enriched_df[i].full_name = NaNText
                 /\ enriched_df[i].party = NaN
                 /\ enriched_df[i].state = NaN
           /\ \A k \in 1..Len(vote_df) :
                 (/\ FullNameHolders(vote_df[k].cleaned_name) = {}
                  /\ LastNameHolders(vote_df[k].cleaned_name) = {})
                 => \E i \in unmatched : enriched_df[i].name = vote_df[k].name
           /\ WarnedNames = {enriched_df[i].name : i \in unmatched}
           /\ Cardinality(Printed("unmatched")) = IF unmatched = {} THEN 0 ELSE 1

\* ====================================================== house_votes.py
\* ------------------------------------------------------- House: inputs
Aye == <<"A", "y", "e">>
Yes == <<"Y", "e", "s">>
No == <<"N", "o">>
NotVotingPresent == <<"N", "o", "t", " ", "v", "o", "t", "i", "n", "g", "/",
                      "p", "r", "e", "s", "e", "n", "t">>
Democratic == <<"D", "e", "m", "o", "c", "r", "a", "t", "i", "c">>
Republican == <<"R", "e", "p", "u", "b", "l", "i", "c", "a", "n">>
DoeJane == <<"D", "o", "e", ",", " ", "J", "a", "n", "e">>
SmithJohn == <<"S", "m", "i", "t", "h", ",", " ", "J", "o", "h", "n">>
SmithTX == <<"S", "m", "i", "t", "h", " ", "(", "T", "X", ")">>
Roe == <<"R", "o", "e">>

\* Rows of the clerk's roll-call table: the member's name, the id of the
\* name's link (missing when the name is no link), party, state, vote.  One
\* row names Smith and links to Doe's id.
HouseVoteRows == {
    [name |-> Doe, id |-> "D000001", party |-> Democratic, state |-> "CA",
     vote |-> Yea],
    [name |-> Smith, id |-> "D000001", party |-> Republican, state |-> "TX",
     vote |-> Nay],
    [name |-> SmithTX, id |-> "S000002", party |-> Republican, state |-> "TX",
     vote |-> Aye],
    [name |-> Roe, id |-> "R000009", party |-> Republican, state |-> "OH",
     vote |-> NotVoting],
    [name |-> Doe, id |-> NaN, party |-> Democratic, state |-> "CA",
     vote |-> No] }

\* The roll-call table holds a row at least (what the column splits of
\* fetch_roll_call_vote and fetch_members_list do with an empty table is
\* not modelled).
HouseVoteTables == UNION {[1..k -> HouseVoteRows] : k \in 1..MaxVotes}

\* Rows of the clerk's member list.
HouseMembers == {
    [representative |-> DoeJane, party |-> Democratic, state |-> "California",
     district |-> "12th", id |-> "D000001"],
    [representative |-> SmithJohn, party |-> Republican, state |-> "Texas",
     district |-> "3rd", id |-> "S000002"] }

\* A member list: no two members share an id.
HouseRosters ==
    {r \in UNION {[1..k -> HouseMembers] : k \in 1..MaxMembers} :
        \A i, j \in DOMAIN r : i # j => r[i].id # r[j].id}

\* The Republican and the Democratic row of the clerk's totals table, its
\* columns Yeas/Ayes and Nays/Noes already named Yes and No.
TotalsRows == {
    [Yes |-> 2, No |-> 1, Present |-> 0, NotVoting |-> 1],
    [Yes |-> 1, No |-> 2, Present |-> 1, NotVoting |-> 0],
    [Yes |-> 0, No |-> 0, Present |-> 0, NotVoting |-> 0] }

TotalsTables == [{"Republican", "Democratic"} -> TotalsRows]

\* ------------------------------------------------- fetch_roll_call_vote
\* df["vote"].replace({"Yea": "Yes", "Nay": "No", "Aye": "Yes"})
VoteClean(vote) ==
    CASE vote = Yea -> Yes
      [] vote = Nay -> No
      [] vote = Aye -> Yes
      [] OTHER -> vote

\* df["name"].str.split(r" \(", expand=True)[0]
NameClean(name) ==
    LET opens == {i \in 1..(Len(name) - 1) : name[i] = " " /\ name[i + 1] = "("}
    IN IF opens = {} THEN name ELSE SubSeq(name, 1, Min(opens) - 1)

RollCallRow(r) ==
    [name |-> r.name, id |-> r.id, party |-> r.party, state |-> r.state,
     vote |-> r.vote, vote_clean |-> VoteClean(r.vote),
     party_letter |-> SubSeq(r.party, 1, 1), name_clean |-> NameClean(r.name)]

\* --------------------------------------------------- fetch_members_list
\* df["representative"].str.split(", ", n=1, expand=True); the column
\* "abbreviation", which nothing downstream reads, is left out.
MemberRow(m) ==
    LET seps == {i \in 1..(Len(m.representative) - 1) :
                    m.representative[i] = "," /\ m.representative[i + 1] = " "}
    IN [first_name |-> IF seps = {} THEN NaNText
                       ELSE SubSeq(m.representative, Min(seps) + 2,
                                   Len(m.representative)),
        last_name |-> IF seps = {} THEN m.representative
                      ELSE SubSeq(m.representative, 1, Min(seps) - 1),
        representative |-> m.representative, party |-> m.party,
        state |-> m.state, district |-> m.district, id |-> m.id]

\* --------------------------------------------- merge_votes_with_members
\* The member rows the left merge on "id" puts beside a vote row.
RECURSIVE IdHits(_, _)
IdHits(members_df, id) ==
    IF members_df = << >> THEN << >>
    ELSE (IF Head(members_df).id = id THEN <<Head(members_df)>> ELSE << >>)
         \o IdHits(Tail(members_df), id)

\* The row of df_clean for a vote row and the member merged into it, if any:
\* the vote's own name stands in for a missing representative.
CleanRow(v, hit) ==
    [Name |-> v.name,
     Representative |-> IF hit = << >> THEN v.name ELSE hit[1].representative,
     State |-> v.state,
     District |-> IF hit = << >> THEN "" ELSE hit[1].district,
     Party |-> v.party_letter,
     Vote |-> v.vote_clean]

\* The merge keyed on the name instead of the id: a vote row takes the
\* member whose last name is the vote's name.
RECURSIVE MergeOnLastName(_, _)
MergeOnLastName(votes_df, members_df) ==
    IF votes_df = << >> THEN << >>
    ELSE LET v == Head(votes_df)
             hits == SelectSeq(members_df,
                               LAMBDA m : m.last_name = v.name_clean)
         IN (IF hits = << >> THEN <<CleanRow(v, << >>)>>
             ELSE [i \in 1..Len(hits) |-> CleanRow(v, <<hits[i]>>)])
            \o MergeOnLastName(Tail(votes_df), members_df)

RECURSIVE MergeVotesWithMembers(_, _)
MergeVotesWithMembers(votes_df, members_df) ==
    IF votes_df = << >> THEN << >>
    ELSE LET v == Head(votes_df)
             hits == IdHits(members_df, v.id)
         IN (IF hits = << >> THEN <<CleanRow(v, << >>)>>
             ELSE [i \in 1..Len(hits) |-> CleanRow(v, <<hits[i]>>)])
            \o MergeVotesWithMembers(Tail(votes_df), members_df)

\* ------------------------------------------------ generate_vote_summary
HouseSummaryPrints(merged_df) ==
    LET df == DropDuplicates(merged_df, "Name")
        party_counts == ValueCounts(df, "Party", NaNText)
        vote_counts == ValueCounts(df, "Vote", NaNText)
    IN <<[kind |-> "summary",
          data |-> [total |-> Len(df),
                    d |-> Get(party_counts, <<"D">>),
                    r |-> Get(party_counts, <<"R">>),
                    i |-> Get(party_counts, <<"I">>),
                    yes |-> Get(vote_counts, Yes),
                    no |-> Get(vote_counts, No),
                    not_voting |-> Get(vote_counts, NotVoting)]]>>

\* ------------------------------------------------ fetch_overall_summary
\* The pivot of the totals table: one row per vote, one column per party.
OverallPivot(totals) ==
    {[Vote |-> Yes, counts |-> [p \in DOMAIN totals |-> totals[p].Yes]],
     [Vote |-> No, counts |-> [p \in DOMAIN totals |-> totals[p].No]],
     [Vote |-> NotVotingPresent,
      counts |-> [p \in DOMAIN totals |->
                     totals[p].Present + totals[p].NotVoting]]}

RowTotal(table, v) ==
    LET r == CHOOSE q \in table : q.Vote = v
    IN SumOver(r.counts, DOMAIN r.counts)

\* Which of Yes and No gets the check mark.
HouseWinner(yes_votes, no_votes) ==
    IF yes_votes > no_votes THEN Yes ELSE No

\* The table fetch_overall_summary returns: the winner's label marked, and
\* the total of the Democratic and Republican columns added.  The rows'
\* order (sort_values) is not kept.
OverallSummary(totals) ==
    LET pivot == OverallPivot(totals)
        winner == HouseWinner(RowTotal(pivot, Yes), RowTotal(pivot, No))
    IN {[Vote |-> IF r.Vote = winner THEN r.Vote \o CheckMark ELSE r.Vote,
         counts |-> r.counts,
         total |-> r.counts["Democratic"] + r.counts["Republican"]]
        : r \in pivot}

\* ----------------------------------------------------- house_votes.main
HouseUploadFiles ==
    <<"house_vote.csv", "house_vote.json",
      "house_partisan_summary.csv", "house_partisan_summary.json">>

InitHouse ==
    /\ NormIdle
    /\ RunIdle
    /\ bucket \in BOOLEAN

FetchRollCallVote ==
    /\ pc = "start"
    /\ \E table \in HouseVoteTables :
          vote_df' = [i \in 1..Len(table) |-> RollCallRow(table[i])]
    /\ pc' = "votes"
    /\ UNCHANGED <<bucket, vote_data, member_df, enriched_df, formatted_df,
                   overall, printed, files, uploads, raised>>
    /\ UNCHANGED normVars

FetchMembersList ==
    /\ pc = "votes"
    /\ \E roster \in HouseRosters :
          member_df' = [i \in 1..Len(roster) |-> MemberRow(roster[i])]
    /\ pc' = "members"
    /\ UNCHANGED <<bucket, vote_data, vote_df, enriched_df, formatted_df,
                   overall, printed, files, uploads, raised>>
    /\ UNCHANGED normVars

MergeHouse ==
    /\ pc = "members"
    /\ enriched_df' = MergeVotesWithMembers(vote_df, member_df)
    /\ pc' = "merged"
    /\ UNCHANGED <<bucket, vote_data, member_df, vote_df, formatted_df,
                   overall, printed, files, uploads, raised>>
    /\ UNCHANGED normVars

HouseVoteSummary ==
    /\ pc = "merged"
    /\ printed' = printed \o HouseSummaryPrints(enriched_df)
    /\ pc' = "summarized"
    /\ UNCHANGED <<bucket, vote_data, member_df, vote_df, enriched_df,
                   formatted_df, overall, files, uploads, raised>>
    /\ UNCHANGED normVars

FetchOverallSummary ==
    /\ pc = "summarized"
    /\ \E totals \in TotalsTables :
          /\ overall' = OverallSummary(totals)
          /\ printed' = Append(printed, [kind |-> "partisan_summary",
                                         data |-> OverallSummary(totals)])
    /\ pc' = "overall"
    /\ UNCHANGED <<bucket, vote_data, member_df, vote_df, enriched_df,
                   formatted_df, files, uploads, raised>>
    /\ UNCHANGED normVars

\* export_json and save_to_csv of the roll call, then of the summary.
ExportRollCall ==
    /\ pc = "overall"
    /\ files' = files \o <<[path |-> "house_vote.json", rows |-> enriched_df],
                           [path |-> "house_vote.csv", rows |-> enriched_df]>>
    /\ printed' = Append(printed, [kind |-> "saved", data |-> "house_vote.csv"])
    /\ pc' = "roll_call_exported"
    /\ UNCHANGED <<bucket, vote_data, member_df, vote_df, enriched_df,
                   formatted_df, overall, uploads, raised>>
    /\ UNCHANGED normVars

ExportOverall ==
    /\ pc = "roll_call_exported"
    /\ files' = files
          \o <<[path |-> "house_partisan_summary.json", rows |-> overall],
               [path |-> "house_partisan_summary.csv", rows |-> overall]>>
    /\ printed' = Append(printed, [kind |-> "saved",
                                   data |-> "house_partisan_summary.csv"])
    /\ pc' = "exported"
    /\ UNCHANGED <<bucket, vote_data, member_df, vote_df, enriched_df,
                   formatted_df, overall, uploads, raised>>
    /\ UNCHANGED normVars

\* One turn of the upload loop; an exception that leaves save_to_s3 ends
\* the run.
HouseUpload ==
    /\ pc = "exported"
    /\ bucket
    /\ Len(uploads) < Len(HouseUploadFiles)
    /\ \E outcome \in SaveToS3Outcomes :
          /\ SaveToS3(HouseUploadFiles[Len(uploads) + 1], outcome)
          /\ pc' = IF outcome = "no_client" THEN "raised" ELSE pc
    /\ UNCHANGED <<bucket, vote_data, member_df, vote_df, enriched_df,
                   formatted_df, overall, files>>
    /\ UNCHANGED normVars

AllDone ==
    /\ pc = "exported"
    /\ ~bucket \/ Len(uploads) = Len(HouseUploadFiles)
    /\ printed' = Append(printed, [kind |-> "all_done", data |-> NaN])
    /\ pc' = "done"
    /\ UNCHANGED <<bucket, vote_data, member_df, vote_df, enriched_df,
                   formatted_df, overall, files, uploads, raised>>
    /\ UNCHANGED normVars

NextHouse ==
    \/ FetchRollCallVote
    \/ FetchMembersList
    \/ MergeHouse
    \/ HouseVoteSummary
    \/ FetchOverallSummary
    \/ ExportRollCall
    \/ ExportOverall
    \/ HouseUpload
    \/ AllDone

SpecHouse == InitHouse /\ [][NextHouse]_vars

\* --------------------------------------------------- the House's claims
\* main() has merged the votes with the member list.
AfterMerge ==
    pc \in {"merged", "summarized", "overall", "roll_call_exported",
            "exported", "done"}

\* The vote rows whose id is no member's id.
HouseUnmatched ==
    {k \in 1..Len(vote_df) :
        \A i \in 1..Len(member_df) : member_df[i].id # vote_df[k].id}

\* C13: the vote rows left unmatched are kept in the merged frame and the
\* run has warned about exactly their raw names.
C13_UnmatchedWarned ==
    AfterMerge =>
        /\ Len(enriched_df) = Len(vote_df)
        /\ \A k \in HouseUnmatched : enriched_df[k].Name = vote_df[k].name
        /\ WarnedNames = {vote_df[k].name : k \in HouseUnmatched}

\* C13, what the House merge does with an unmatched row: it is kept, its
\* district is empty and its representative is the roll call's name.
C13_HouseKeepsUnmatched ==
    AfterMerge =>
        /\ Len(enriched_df) = Len(vote_df)
        /\ \A k \in HouseUnmatched :
              /\ enriched_df[k].Name = vote_df[k].name
              /\ enriched_df[k].Representative = vote_df[k].name
              /\ enriched_df[k].District = ""
        /\ Printed("unmatched") = {}

\* C2: a vote row whose id is a member's id is matched to that member,
\* whatever its name: the merged frame has one row per vote row, in the
\* vote rows' order, and the row of a vote whose id is on the member list
\* shows that member's name and district.
C2_IdMatchWins ==
    AfterMerge =>
        /\ Len(enriched_df) = Len(vote_df)
        /\ \A k \in 1..Len(vote_df) :
              /\ enriched_df[k].Name = vote_df[k].name
              /\ \A i \in 1..Len(member_df) :
                    member_df[i].id = vote_df[k].id
                    => /\ enriched_df[k].Representative
                          = member_df[i].representative
                       /\ enriched_df[k].District = member_df[i].district

\* C2's case: a vote row that names Smith and carries Doe's id, with both on
\* the member list, is merged with Doe.
C2_Witness ==
    /\ AfterMerge
    /\ \E k \in 1..Len(vote_df) :
          /\ vote_df[k].name = Smith
          /\ vote_df[k].id = "D000001"
          /\ \E i \in 1..Len(member_df) : member_df[i].last_name = Smith
          /\ \E i \in 1..Len(member_df) : member_df[i].id = "D000001"
          /\ k <= Len(enriched_df)
          /\ enriched_df[k].Representative = DoeJane

\* C7 (House): the check mark is on Yes when Yes has strictly more votes
\* over the parties, and on No otherwise.
C7_HouseMarker ==
    pc \in {"overall", "roll_call_exported", "exported", "done"} =>
        LET unmarked(v) == {r \in overall : r.Vote = v}
            marked(v) == {r \in overall : r.Vote = v \o CheckMark}
            sum(v) == LET r == CHOOSE q \in overall :
                                  q.Vote \in {v, v \o CheckMark}
                      IN SumOver(r.counts, DOMAIN r.counts)
        IN IF sum(Yes) > sum(No)
           THEN marked(Yes) # {} /\ marked(No) = {} /\ unmarked(No) # {}
           ELSE marked(No) # {} /\ marked(Yes) = {} /\ unmarked(Yes) # {}

\* The files the House run has written once both exports are through.
HouseExported ==
    <<[path |-> "house_vote.json", rows |-> enriched_df],
      [path |-> "house_vote.csv", rows |-> enriched_df],
      [path |-> "house_partisan_summary.json", rows |-> overall],
      [path |-> "house_partisan_summary.csv", rows |-> overall]>>

\* The House run is in or past its upload loop.
AfterExports == pc \in {"exported", "done", "raised"}

\* C14: a failed upload never ends the House run: nothing is raised in or
\* after the upload loop, the uploads made so far are the first of the four
\* in their order, all four have been tried when the run prints its
\* completion message with a bucket given, and the written files stay as
\* they were.
C14_UploadFailureNeverAborts ==
    AfterExports =>
        /\ raised = NaN
        /\ pc # "raised"
        /\ Len(uploads) <= Len(HouseUploadFiles)
        /\ \A i \in 1..Len(uploads) : uploads[i].path = HouseUploadFiles[i]
        /\ (pc = "done" /\ bucket) => Len(uploads) = Len(HouseUploadFiles)
        /\ files = HouseExported

\* C14, the failures save_to_s3 does catch: where nothing was raised, the
\* uploads are tried in order whatever the earlier outcomes, each is
\* reported, and the completion message follows the fourth.
C14_UploadFileFailureCaught ==
    (AfterExports /\ raised = NaN) =>
        /\ \A i \in 1..Len(uploads) : uploads[i].path = HouseUploadFiles[i]
        /\ Cardinality(Printed("uploaded") \cup Printed("failed")) = Len(uploads)
        /\ (pc = "done" /\ bucket) =>
              /\ Len(uploads) = Len(HouseUploadFiles)
              /\ Printed("all_done") # {}
        /\ files = HouseExported

\* C14: an exception ends the House run only from the making of the S3
\* client, and the written files are as they were.
C14_OnlyClientRaises ==
    pc = "raised" => raised = "ProfileNotFound" /\ files = HouseExported

\* C9: normalising a normalised name changes nothing.
C9_Idempotent == step \in {"recleaned", "keyed"} => key_vote_twice = key_vote

\* C9 over the names without a line feed or an ideograph.
C9_Plain ==
    (step \in {"recleaned", "keyed"}
        /\ \A i \in 1..Len(raw_name) : raw_name[i] \notin {"LF", "U+5317"})
    => key_vote_twice = key_vote

\* C10: a name and a variant of it have one key, whichever chain made it.
C10_SameKey ==
    step = "keyed" => key_full = key_vote /\ key_last = key_vote

=============================================================================
